---- MODULE Spec2Model ----
(***************************************************************************)
(* A model of the timeline segmentation and time arithmetic of the video   *)
(* editor: src/src/utils/time_utils.py, src/src/operations/trimming.py,    *)
(* src/src/operations/speed.py, src/src/operations/concatenation.py,       *)
(* src/src/operations/audio_conversion.py and the dispatcher in            *)
(* src/main.py.                                                            *)
(*                                                                         *)
(* One behaviour of the model is one call of one operation.  Init draws    *)
(* the call's arguments and the media's duration; the actions are the      *)
(* steps of the called function, in the order of its code.  The external   *)
(* media engine (moviepy) is not part of the repository: every call into   *)
(* it is logged in `calls` and may either return or raise.                 *)
(*                                                                         *)
(* Times of the media operations are whole seconds.  The code computes    *)
(* with Python floats; the model's arithmetic is exact.  Subtitle times    *)
(* are timedeltas, whole microseconds as in Python.  A subtitle call may   *)
(* be followed by a second one on its output.  In a call of process_video  *)
(* an operation of the configuration is one step that returns or raises.   *)
(***************************************************************************)
EXTENDS Integers, Sequences, FiniteSets, TLC

(***************************************************************************)
(* Text.  A Python str is a sequence of one-character strings.             *)
(***************************************************************************)
Digits == <<"0", "1", "2", "3", "4", "5", "6", "7", "8", "9">>

IsDigit(c) == \E i \in 1..10 : Digits[i] = c

DigitVal(c) == (CHOOSE i \in 1..10 : Digits[i] = c) - 1

\* str.lower() of one character, for the letters the model's texts use.
LowerChar(c) ==
    CASE c = "E" -> "e"
      [] c = "N" -> "n"
      [] c = "D" -> "d"
      [] OTHER -> c

\* str.lower() with the case folding left out: what a case-sensitive
\* comparison would see.
LowerKeepsCase(s) == s

\* str.lower()
Lower(s) == [i \in 1..Len(s) |-> LowerChar(s[i])]

(***************************************************************************)
(* Python's None, for an argument that holds a number, a str or a list.    *)
(***************************************************************************)
None == -1

NoneText == <<"None">>

NoneList == <<NoneText>>

(***************************************************************************)
(* The results of the parsers: a value, or the error that is raised.       *)
(***************************************************************************)
Ok(v) == [ok |-> TRUE, val |-> v, kind |-> "none"]

Raise(k) == [ok |-> FALSE, val |-> 0, kind |-> k]

(***************************************************************************)
(* datetime.strptime(time_str, "%M:%S").  The format compiles to the       *)
(* regular expression (?P<M>[0-5]\d|\d):(?P<S>6[0-1]|[0-5]\d|\d), matched  *)
(* at the start of the text; the alternatives are tried in order.  The     *)
(* match must end where the text ends, and the fields must make a valid    *)
(* datetime (second in 0..59).                                             *)
(***************************************************************************)
\* The length of the %M field at the start of s (0: no match).  Of the two
\* alternatives only one can be followed by the colon.
MinuteLen(s) ==
    IF /\ Len(s) >= 3
       /\ s[1] \in {"0", "1", "2", "3", "4", "5"}
       /\ IsDigit(s[2])
       /\ s[3] = ":"
    THEN 2
    ELSE IF Len(s) >= 2 /\ IsDigit(s[1]) /\ s[2] = ":"
         THEN 1
         ELSE 0

\* The length of the %S field of s at position p (0: no match).
SecondLen(s, p) ==
    IF /\ Len(s) >= p + 1
       /\ s[p] = "6"
       /\ s[p + 1] \in {"0", "1"}
    THEN 2
    ELSE IF /\ Len(s) >= p + 1
            /\ s[p] \in {"0", "1", "2", "3", "4", "5"}
            /\ IsDigit(s[p + 1])
         THEN 2
         ELSE IF Len(s) >= p /\ IsDigit(s[p])
              THEN 1
              ELSE 0

\* int() of the digits s[p .. p+n-1], n in 1..2
FieldVal(s, p, n) ==
    IF n = 2
    THEN 10 * DigitVal(s[p]) + DigitVal(s[p + 1])
    ELSE DigitVal(s[p])

\* time_to_seconds(time_str): every ValueError of strptime is raised again as
\* ValueError("Invalid time format ..., time should be in format MM:SS").
time_to_seconds(time_str) ==
    LET ml == MinuteLen(time_str)
        sl == IF ml = 0 THEN 0 ELSE SecondLen(time_str, ml + 2)
    IN IF ml = 0 \/ sl = 0
       THEN Raise("InvalidFormat")       \* does not match format
       ELSE IF ml + 1 + sl # Len(time_str)
            THEN Raise("InvalidFormat")  \* unconverted data remains
            ELSE IF FieldVal(time_str, ml + 2, sl) > 59
                 THEN Raise("InvalidFormat")  \* second must be in 0..59
                 ELSE Ok(FieldVal(time_str, 1, ml) * 60
                         + FieldVal(time_str, ml + 2, sl))

\* parse_time_with_end(time_str, video_duration)
parse_time_with_end(time_str, video_duration) ==
    IF Lower(time_str) = <<"e", "n", "d">>
    THEN IF video_duration = None
         THEN Raise("MissingDuration")
         ELSE Ok(video_duration)
    ELSE LET r == time_to_seconds(time_str)
         IN IF r.ok THEN r ELSE Raise("InvalidFormat")

(***************************************************************************)
(* The str methods the subtitle code uses.                                 *)
(***************************************************************************)
\* str(n) of a number n >= 0
RECURSIVE Str(_)
Str(n) ==
    IF n < 10
    THEN <<Digits[n + 1]>>
    ELSE Str(n \div 10) \o <<Digits[(n % 10) + 1]>>

\* The formatting of a field with the padding left out.
Unpadded(n, w) == Str(n)

\* f"{n:0w}": at least w digits, zeros in front
ZeroPad(n, w) ==
    LET s == Str(n)
    IN [k \in 1..(IF Len(s) < w THEN w - Len(s) ELSE 0) |-> "0"] \o s

\* The value of a run of digits.
RECURSIVE DigitsVal(_)
DigitsVal(s) ==
    IF Len(s) = 0
    THEN 0
    ELSE 10 * DigitsVal(SubSeq(s, 1, Len(s) - 1)) + DigitVal(s[Len(s)])

\* The characters str.strip() removes.
Whitespace == {" ", "\n", "\r", "\t"}

\* s.strip()
Strip(s) ==
    LET ks == {k \in 1..Len(s) : s[k] \notin Whitespace}
    IN IF ks = {}
       THEN <<>>
       ELSE SubSeq(s, CHOOSE k \in ks : \A j \in ks : k <= j,
                      CHOOSE k \in ks : \A j \in ks : k >= j)

\* sub is in s at position p
IsAt(s, sub, p) ==
    /\ p + Len(sub) - 1 <= Len(s)
    /\ SubSeq(s, p, p + Len(sub) - 1) = sub

\* s.find(sub), counted from 1; 0 when sub is not in s
Find(s, sub) ==
    LET ps == {p \in 1..Len(s) : IsAt(s, sub, p)}
    IN IF ps = {} THEN 0 ELSE CHOOSE p \in ps : \A q \in ps : p <= q

\* sub in s
Contains(s, sub) == Find(s, sub) # 0

\* s.split(sep)
RECURSIVE Split(_, _)
Split(s, sep) ==
    LET p == Find(s, sep)
    IN IF p = 0
       THEN <<s>>
       ELSE <<SubSeq(s, 1, p - 1)>>
            \o Split(SubSeq(s, p + Len(sep), Len(s)), sep)

\* int(s): whitespace around the digits is ignored.  A sign or an
\* underscore, which int() also takes, is in no field of the model's texts.
IntOf(s) ==
    LET t == Strip(s)
    IN IF Len(t) >= 1 /\ \A k \in 1..Len(t) : IsDigit(t[k])
       THEN Ok(DigitsVal(t))
       ELSE Raise("InvalidFormat")

(***************************************************************************)
(* datetime.timedelta, normalised as Python keeps it: whole seconds (the   *)
(* days folded in) and 0 .. 999999 microseconds.                           *)
(***************************************************************************)
\* timedelta(hours=h, minutes=m, seconds=s, milliseconds=ms)
timedelta(h, m, s, ms) ==
    [seconds |-> 3600 * h + 60 * m + s + (ms \div 1000),
     microseconds |-> (ms % 1000) * 1000]

\* parse_time(time_str): the text is split at ':' into exactly three parts
\* and the third at ',' into exactly two; a failed unpacking and a failed
\* int() are both ValueError.
parse_time(time_str) ==
    LET a == Split(time_str, <<":">>)
    IN IF Len(a) # 3
       THEN Raise("InvalidFormat")
       ELSE LET b == Split(a[3], <<",">>)
            IN IF Len(b) # 2
               THEN Raise("InvalidFormat")
               ELSE LET hours == IntOf(a[1])
                        minutes == IntOf(a[2])
                        seconds == IntOf(b[1])
                        milliseconds == IntOf(b[2])
                    IN IF hours.ok /\ minutes.ok /\ seconds.ok
                          /\ milliseconds.ok
                       THEN Ok(timedelta(hours.val, minutes.val, seconds.val,
                                         milliseconds.val))
                       ELSE Raise("InvalidFormat")

\* format_time with the milliseconds rounded to the nearest instead of cut.
RoundedMillis(time_delta) == (time_delta.microseconds + 500) \div 1000

\* milliseconds = int(time_delta.microseconds / 1000)
Millis(time_delta) == time_delta.microseconds \div 1000

\* format_time(time_delta): divmod of total_seconds() by 3600 and by 60, the
\* parts cut to integers, the fields padded to 2, 2, 2 and 3 digits.
format_time(time_delta) ==
    ZeroPad(time_delta.seconds \div 3600, 2) \o <<":">>
    \o ZeroPad((time_delta.seconds % 3600) \div 60, 2) \o <<":">>
    \o ZeroPad(time_delta.seconds % 60, 2) \o <<",">>
    \o ZeroPad(Millis(time_delta), 3)

(***************************************************************************)
(* speed = 1 / _speed and timedelta * speed.  A speed is the pair          *)
(* <<n, d>> for the Python number n/d (the float nearest to it when d > 1);*)
(* its reciprocal is the float nearest to d/n.  timedelta.__mul__ takes    *)
(* the float's exact ratio and rounds the product to the nearest           *)
(* microsecond, a tie to the even one.                                     *)
(***************************************************************************)
\* The sign of float(1 / speed) - 1/speed, for the speeds the model draws:
\* 1/3 is stored below its value, 1/2000 above, the others exactly
\* (1 / 0.3333333333333333 == 3.0 in floats).
RecipBias(sp) ==
    CASE sp = <<3, 1>> -> -1
      [] sp = <<2000, 1>> -> 1
      [] OTHER -> 0

\* _divide_and_round(a, b) where the true numerator is a + bias * epsilon
DivideAndRound(a, b, bias) ==
    LET q == a \div b
        r == a % b
    IN IF r = 0
       THEN q
       ELSE IF 2 * r > b
            THEN q + 1
            ELSE IF 2 * r < b
                 THEN q
                 ELSE IF bias > 0
                      THEN q + 1
                      ELSE IF bias < 0 \/ q % 2 = 0 THEN q ELSE q + 1

\* time_delta * (1 / sp).  The product is taken in two parts, whole seconds
\* and the rest, so that no number passes 2^31.
Retimed(time_delta, sp) ==
    LET whole == time_delta.seconds * sp[2]
        rest == (whole % sp[1]) * 1000000 + time_delta.microseconds * sp[2]
        us == DivideAndRound(rest, sp[1], RecipBias(sp))
    IN [seconds |-> (whole \div sp[1]) + (us \div 1000000),
        microseconds |-> us % 1000000]

(***************************************************************************)
(* The arguments the model draws.                                          *)
(***************************************************************************)
T_0000 == <<"0", "0", ":", "0", "0">>
T_0002 == <<"0", "0", ":", "0", "2">>
T_0004 == <<"0", "0", ":", "0", "4">>
T_0030 == <<"0", "0", ":", "3", "0">>
T_0100 == <<"0", "1", ":", "0", "0">>
T_0060 == <<"0", "0", ":", "6", "0">>
T_end == <<"e", "n", "d">>
T_End == <<"E", "n", "d">>

\* The texts of the arguments of the media operations: the starts (a
\* malformed one among them) and the ends (the sentinel in two spellings
\* and a malformed one among them).
StartTexts == {T_0000, T_0002, T_0100, T_0060}

EndTexts == {T_0002, T_0004, T_0030, T_end, T_End, T_0060}

\* Further texts for the parsers alone: short fields, seconds of 60 and
\* more, minutes of 60 and more, text before and after the match, the
\* spellings of "end".
ParserTexts ==
    StartTexts \cup EndTexts \cup
    { <<"5", ":", "3">>, <<"0", "0", ":", "5">>, <<"5", "9", ":", "5", "9">>,
      <<"1", ":", "6", "1">>, <<"1", ":", "6", "5">>, <<"6", "0", ":", "0", "0">>,
      <<"0", "0", "1", ":", "0", "2">>, <<"1", ":", "0", "0", "2">>,
      <<"0", ":">>, <<>>, <<"0", "0", "0", "4">>, <<":", "0", "4">>,
      <<"E", "N", "D">>, <<"e", "N", "d">>, <<"e", "n", "D">>,
      <<"e", "n", "d", "e">>, <<"e", "n">>, <<"0", "0", ":", "e", "n", "d">>,
      <<"9", "9", ":", "5", "9">>, <<"1", "0", "0", ":", "0", "0">>,
      <<"6", "1", ":", "6", "0">> }

\* The media durations (video.duration) the model draws.
Durations == {10, 120}

\* video_duration of a direct call of parse_time_with_end: 0 .. MaxD, the
\* media durations, or None.
MaxD == 3

\* Interval lists hold at most MaxIntervals intervals.
MaxIntervals == 2

\* window_length and slide_step are drawn from -1 .. MaxWindow.
MaxWindow == 3

\* speed is drawn from 1 .. MaxSpeed.
MaxSpeed == 2

Intervals == StartTexts \X EndTexts

IntervalLists == UNION {[1..n -> Intervals] : n \in 0..MaxIntervals}

(***************************************************************************)
(* The subtitle texts the model draws.                                     *)
(***************************************************************************)
\* Two and three digits of a number, written without the formatter.
Two(n) == <<Digits[(n \div 10) + 1], Digits[(n % 10) + 1]>>

Three(n) == <<Digits[(n \div 100) + 1]>> \o Two(n % 100)

\* The zero-padded text HH:MM:SS,mmm of the fields f = <<h, m, s, ms>>
LongText(f) ==
    Two(f[1]) \o <<":">> \o Two(f[2]) \o <<":">> \o Two(f[3]) \o <<",">>
    \o Three(f[4])

\* Hours are drawn from 0 .. MaxHours, and 25 and 99 besides.
MaxHours == 1

LongFields ==
    ((0..MaxHours) \cup {25, 99}) \X {0, 1, 59} \X {0, 1, 59}
    \X {0, 1, 5, 500, 999}

L_1000 == <<"0", "0", ":", "0", "0", ":", "0", "1", ",", "0", "0", "0">>
L_2000 == <<"0", "0", ":", "0", "0", ":", "0", "2", ",", "0", "0", "0">>
L_0005 == LongText(<<0, 0, 0, 5>>)
L_1999 == LongText(<<0, 0, 1, 999>>)
L_hour == LongText(<<1, 59, 59, 999>>)
L_dot == <<"0", "0", ":", "0", "0", ":", "0", "1", ".", "0", "0", "0">>

\* Texts parse_time refuses, and texts it takes that are not zero-padded or
\* have a field out of its range.
OtherLongTexts ==
    { L_dot, <<>>, <<"0", "0", ":", "0", "1", ",", "0", "0", "0">>,
      <<"0", "0", ":", "0", "0", ":", "0", "1">>,
      <<"0", "0", ":", "0", "0", ":", "0", "1", ",">>,
      <<"0", "0", ":", "x", "0", ":", "0", "1", ",", "0", "0", "0">>,
      <<"0", ":", "0", ":", "1", ",", "5">>,
      <<"0", "0", ":", "7", "5", ":", "6", "1", ",", "1", "5", "0", "0">> }

LF == <<"\n">>
CRLF == <<"\r", "\n">>

\* " --> ", which the timing line is split at and written with
Marker == <<" ", "-", "-", ">", " ">>

\* "-->", which the line is tested for
Arrow == <<"-", "-", ">">>

\* The timing line "A --> B" without its line end.
Timing(a, b) == a \o Marker \o b

\* The timing lines of a well-formed file, the start never after the end.
TimingLines ==
    { Timing(L_1000, L_2000), Timing(L_0005, L_1999), Timing(L_1999, L_hour) }

\* The lines of a subtitle file, each with its line end: timing lines,
\* index, text and blank lines, a text line with an arrow in it, a timing
\* line without the space after the arrow, a timing line with a malformed
\* timecode.
EndedLines ==
    { t \o LF : t \in TimingLines }
    \cup { <<"1">> \o LF, <<"H", "i">> \o LF, LF, <<"H", "i">> \o CRLF,
           <<"a">> \o Arrow \o <<"b">> \o LF,
           L_1000 \o <<" ">> \o Arrow \o L_2000 \o LF,
           Timing(L_dot, L_2000) \o LF }

\* The last line of a file may lack the line end.
LastLines == EndedLines \cup { Timing(L_1000, L_2000), <<"H", "i">> }

\* A file holds at most MaxLines lines.
MaxLines == 2

Files ==
    UNION { { f \in [1..n -> LastLines] :
                \A k \in 1..(n - 1) : f[k] \in EndedLines } : n \in 0..MaxLines }

\* The speeds: 1, 2, 3, 2000 and the floats nearest to 1/2 and 1/3.
Speeds == { <<1, 1>>, <<2, 1>>, <<3, 1>>, <<2000, 1>>, <<1, 2>>, <<1, 3>> }

\* No timedelta.
NoDelta == [seconds |-> None, microseconds |-> 0]

(***************************************************************************)
(* process_video(config) of main.py: the configurations.                   *)
(***************************************************************************)
\* The keys process_video has a branch for.
Operations ==
    {"concat_videos", "add_frozen_frame", "trim_video_by_intervals",
     "cut_video_with_sliding_window", "change_playback_speed",
     "change_subtitle_speed"}

\* The parameters the branch of an operation tests before its call:
\* `if not video_paths` and `if not all([...])`.
Required(name) ==
    CASE name = "concat_videos" -> {"video_paths"}
      [] name = "add_frozen_frame" ->
            {"video_path", "freeze_duration", "output_path", "freeze_position"}
      [] name = "trim_video_by_intervals" -> {"video_path", "intervals"}
      [] name = "cut_video_with_sliding_window" ->
            {"video_path", "window_length", "slide_step"}
      [] name = "change_playback_speed" ->
            {"video_path", "speed", "output_path"}
      [] name = "change_subtitle_speed" ->
            {"subtitle_path", "speed", "output_path"}
      [] OTHER -> {}

\* The parameters the branch reads with params.get and does not test.
Optional(name) ==
    CASE name = "concat_videos" -> {"output_path"}
      [] name = "add_frozen_frame" -> {"freeze_time"}
      [] name = "trim_video_by_intervals" -> {"output_path"}
      [] name = "cut_video_with_sliding_window" ->
            {"start_time", "end_time", "output_dir"}
      [] OTHER -> {}

\* A key of the configuration that process_video has no branch for.
Unknown == "rotate_video"

\* An entry of the configuration gives every parameter of its operation
\* ("none" is absent) or all but one.
Absent ==
    {"none", "video_paths", "intervals", "slide_step", "subtitle_path",
     "output_path", "output_dir", "freeze_time"}

Entries ==
    {e \in [name : Operations \cup {Unknown}, missing : Absent] :
        \/ e.missing = "none"
        \/ e.missing \in Required(e.name) \cup Optional(e.name)}

MaxOps == 3

\* config is a dict: its keys are distinct and keep the order of the file.
Configs ==
    {c \in UNION {[1..n -> Entries] : n \in 0..MaxOps} :
        \A j, k \in DOMAIN c : j # k => c[j].name # c[k].name}

(***************************************************************************)
(* concat_videos, convert_video_to_audio, extract_audio_segment: the       *)
(* arguments.                                                              *)
(***************************************************************************)
MaxPaths == 2

\* video_paths: the paths are told apart by their position.
PathLists == {[k \in 1..n |-> k] : n \in 0..MaxPaths}

\* extract_audio_segment: start_time and end_time are seconds; the duration
\* of the video is the smaller one of Durations.
AudioStarts == {-1, 0, 1}

AudioEnds == {None, 0, 1, 2, 10, 11}

(***************************************************************************)
(* State.  The arguments of the call (constant through a behaviour), then  *)
(* the locals of the running function, the exception that left it, and     *)
(* the calls made into the media engine.                                   *)
(***************************************************************************)
VARIABLES
    op,             \* the function called
    via,            \* "direct", or "config": through process_video of main.py
    duration,       \* video.duration of the file at video_path
    time_str,       \* parse_time_with_end: the text
    video_duration, \* parse_time_with_end: the duration, or None
    intervals,      \* list of (start text, end text), or NoneList
    speed,          \* change_playback_speed: the multiplier
    window_length,
    slide_step,
    start_time,     \* a text; extract_audio_segment: seconds
    end_time,       \* a text, or NoneText; extract_audio_segment:
                    \* seconds, or None
    output_path,    \* "None", "dir" (an existing directory) or "file";
                    \* for the sliding window, output_dir
    lines,          \* the lines of the file at subtitle_path
    subtitle_speed, \* change_subtitle_speed: the multiplier, a pair <<n, d>>
    linesep,        \* os.linesep of the platform
    time_delta,     \* format_time: the timedelta
    config,         \* process_video: the entries of the configuration,
                    \* in the order of the file
    video_paths,    \* concat_videos: the paths
    pc,             \* the position in the code
    video,          \* the handle of VideoFileClip(video_path):
                    \* "unloaded", "open", "closed"
    i,              \* the index of the running loop
    current_time,
    start_seconds,
    end_seconds,
    clips,          \* the clips built so far, each a source range
    subclips,       \* _segment_video_by_intervals: the subclips so far
    result,         \* the number returned by parse_time_with_end
    sub_call,       \* change_subtitle_speed: the first or the second call
    first_out,      \* what the first call wrote
    outfile,        \* the texts written to the file at output_path
    out_exists,     \* the file at output_path exists
    parsed,         \* the timedelta returned by parse_time
    formatted,      \* the text returned by format_time
    err,            \* the kind of the error raised, "none" if none
    exc,            \* the class of the exception that leaves the call
    started,        \* process_video: the operations called, in order
    written,        \* process_video: the operations whose output is on disk
    videos,         \* concat_videos: the handles loaded, each "open"
    video_segment,  \* extract_audio_segment: the handle of the segment:
                    \* "unloaded", "open", "closed"
    calls           \* the engine calls made, in order

args == <<op, via, duration, time_str, video_duration, intervals, speed,
          window_length, slide_step, start_time, end_time, output_path,
          lines, subtitle_speed, linesep, time_delta, config,
          video_paths>>

locals == <<video, i, current_time, start_seconds, end_seconds, clips,
            subclips, result>>

subs == <<sub_call, first_out, outfile, out_exists, parsed, formatted>>

proc == <<started, written>>

handles == <<videos, video_segment>>

vars == <<args, pc, locals, subs, proc, handles, err, exc, calls>>

\* The locals before the first step.
InitLocals ==
    /\ pc = "start"
    /\ video = "unloaded"
    /\ i = 0
    /\ current_time = 0
    /\ start_seconds = 0
    /\ end_seconds = 0
    /\ clips = <<>>
    /\ subclips = <<>>
    /\ result = None
    /\ sub_call = 1
    /\ first_out = <<>>
    /\ outfile = <<>>
    /\ out_exists = FALSE
    /\ parsed = NoDelta
    /\ formatted = <<>>
    /\ started = <<>>
    /\ written = <<>>
    /\ videos = <<>>
    /\ video_segment = "unloaded"
    /\ err = "none"
    /\ exc = "none"
    /\ calls = <<>>

\* The arguments an operation does not take.
NoParseArgs == time_str = <<>> /\ video_duration = None

NoIntervalArgs == intervals = <<>>

NoSubtitleArgs ==
    /\ lines = <<>>
    /\ subtitle_speed = <<1, 1>>
    /\ linesep = LF
    /\ time_delta = NoDelta

NoSpeedArgs == speed = 1

NoWindowArgs ==
    /\ window_length = 1
    /\ slide_step = 1
    /\ start_time = T_0000
    /\ end_time = NoneText

NoConfig == config = <<>>

NoPaths == video_paths = <<>>

InitParse ==
    /\ op = "parse_time_with_end"
    /\ NoConfig /\ NoPaths
    /\ via = "direct"
    /\ time_str \in ParserTexts
    /\ video_duration \in (0..MaxD) \cup Durations \cup {None}
    /\ duration = 0
    /\ output_path = "None"
    /\ NoIntervalArgs /\ NoSpeedArgs /\ NoWindowArgs /\ NoSubtitleArgs

InitTrim ==
    /\ op = "trim_video_by_intervals"
    /\ NoConfig /\ NoPaths
    /\ via \in {"direct", "config"}
    /\ duration \in Durations
    /\ intervals \in IntervalLists
    /\ output_path \in {"None", "dir", "file"}
    /\ NoParseArgs /\ NoSpeedArgs /\ NoWindowArgs /\ NoSubtitleArgs

InitWindow ==
    /\ op = "cut_video_with_sliding_window"
    /\ NoConfig /\ NoPaths
    /\ via = "direct"
    /\ duration \in Durations
    /\ window_length \in (-1)..MaxWindow
    /\ slide_step \in (-1)..MaxWindow
    /\ start_time \in StartTexts
    /\ end_time \in EndTexts \cup {NoneText}
    /\ output_path \in {"None", "dir", "newdir"}
    /\ NoParseArgs /\ NoIntervalArgs /\ NoSpeedArgs /\ NoSubtitleArgs

InitSpeed ==
    /\ op = "change_playback_speed"
    /\ NoConfig /\ NoPaths
    /\ via = "direct"
    /\ duration \in Durations
    /\ speed \in 1..MaxSpeed
    /\ intervals \in IntervalLists \cup {NoneList}
    /\ output_path = "file"
    /\ NoParseArgs /\ NoWindowArgs /\ NoSubtitleArgs

NoMediaArgs ==
    /\ via = "direct"
    /\ duration = 0
    /\ output_path = "None"
    /\ NoIntervalArgs /\ NoSpeedArgs /\ NoWindowArgs

InitTimeToSeconds ==
    /\ op = "time_to_seconds"
    /\ NoConfig /\ NoPaths
    /\ time_str \in ParserTexts
    /\ video_duration = None
    /\ NoMediaArgs /\ NoSubtitleArgs

InitParseTime ==
    /\ op = "parse_time"
    /\ NoConfig /\ NoPaths
    /\ time_str \in {LongText(f) : f \in LongFields} \cup OtherLongTexts
    /\ video_duration = None
    /\ NoMediaArgs /\ NoSubtitleArgs

\* The timedeltas of whole milliseconds.
InitFormatTime ==
    /\ op = "format_time"
    /\ NoConfig /\ NoPaths
    /\ \E f \in LongFields : time_delta = timedelta(f[1], f[2], f[3], f[4])
    /\ lines = <<>>
    /\ subtitle_speed = <<1, 1>>
    /\ linesep = LF
    /\ NoParseArgs /\ NoMediaArgs

InitSubtitle ==
    /\ op = "change_subtitle_speed"
    /\ NoConfig /\ NoPaths
    /\ lines \in Files
    /\ subtitle_speed \in Speeds
    /\ linesep \in {LF, CRLF}
    /\ time_delta = NoDelta
    /\ NoParseArgs /\ NoMediaArgs

InitProcess ==
    /\ op = "process_video"
    /\ config \in Configs
    /\ NoPaths
    /\ NoParseArgs /\ NoMediaArgs /\ NoSubtitleArgs

InitConcat ==
    /\ op = "concat_videos"
    /\ video_paths \in PathLists
    /\ output_path \in {"None", "file"}
    /\ via = "direct"
    /\ duration = 0
    /\ NoConfig
    /\ NoParseArgs /\ NoSubtitleArgs
    /\ NoIntervalArgs /\ NoSpeedArgs /\ NoWindowArgs

InitConvert ==
    /\ op = "convert_video_to_audio"
    /\ output_path \in {"None", "file"}
    /\ via = "direct"
    /\ duration = 0
    /\ NoConfig /\ NoPaths
    /\ NoParseArgs /\ NoSubtitleArgs
    /\ NoIntervalArgs /\ NoSpeedArgs /\ NoWindowArgs

\* start_time and end_time are numbers of seconds here; the defaults are 0.0
\* and None.
InitExtract ==
    /\ op = "extract_audio_segment"
    /\ output_path = "file"
    /\ via = "direct"
    /\ duration \in Durations
    /\ start_time \in AudioStarts
    /\ end_time \in AudioEnds
    /\ window_length = 1
    /\ slide_step = 1
    /\ NoConfig /\ NoPaths
    /\ NoParseArgs /\ NoSubtitleArgs
    /\ NoIntervalArgs /\ NoSpeedArgs

Init ==
    /\ \/ InitParse \/ InitTrim \/ InitWindow \/ InitSpeed
       \/ InitTimeToSeconds \/ InitParseTime \/ InitFormatTime
       \/ InitSubtitle \/ InitProcess
       \/ InitConcat \/ InitConvert \/ InitExtract
    /\ InitLocals

(***************************************************************************)
(* Leaving a call.                                                         *)
(***************************************************************************)
\* raise: the call ends with an exception of class ty and error kind k.
Throw(ty, k) ==
    /\ pc' = "done"
    /\ exc' = ty
    /\ err' = k

\* return
Return == pc' = "done" /\ UNCHANGED <<err, exc>>

\* The classes of the exceptions the engine raises: moviepy raises
\* ValueError for a bad range and OSError for a file it cannot read or write.
EngineExceptions == {"ValueError", "OSError"}

Call(fn) == calls' = Append(calls, fn)

(***************************************************************************)
(* parse_time_with_end(time_str, video_duration), called on its own.       *)
(***************************************************************************)
ParseTimeWithEnd ==
    /\ op = "parse_time_with_end"
    /\ pc = "start"
    /\ LET r == parse_time_with_end(time_str, video_duration)
       IN IF r.ok
          THEN result' = r.val /\ Return
          ELSE result' = result /\ Throw("ValueError", r.kind)
    /\ UNCHANGED <<args, subs, proc, handles, video, i, current_time,
                   start_seconds, end_seconds,
                   clips, subclips, calls>>

(***************************************************************************)
(* trim_video_by_intervals(video_path, intervals, output_path), called     *)
(* directly (src/src/operations/trimming.py) or by process_video, which    *)
(* calls the functions of the same names that main.py defines.             *)
(***************************************************************************)
\* What leaves process_video: it wraps every exception of the operation in
\* Exception("Error with cut video: ...").
Escapes(ty) == IF via = "config" THEN "Exception" ELSE ty

\* process_video, the branch of the operation: `not all([video_path, intervals])`
\* is true of an empty list.
MissingTrimParams(ivs) == Len(ivs) = 0

\* os.path.exists(video_path), checked by trim_video_by_intervals and again
\* by _segment_video_by_intervals.
TrimEnter ==
    /\ op = "trim_video_by_intervals"
    /\ pc = "start"
    /\ \E exists \in BOOLEAN :
          IF via = "config" /\ MissingTrimParams(intervals)
          THEN Throw("ValueError", "MissingParameter")
          ELSE IF ~exists
               THEN Throw(Escapes("FileNotFoundError"), "FileNotFound")
               ELSE pc' = "seg_load" /\ UNCHANGED <<err, exc>>
    /\ UNCHANGED <<args, subs, proc, handles, locals, calls>>

\* video = VideoFileClip(video_path)
SegLoad ==
    /\ pc = "seg_load"
    /\ Call("load")
    /\ \/ /\ video' = "open"
          /\ pc' = "seg_check"
          /\ UNCHANGED <<err, exc>>
       \/ /\ Throw(Escapes("Exception"), "EngineError")
          /\ UNCHANGED video
    /\ UNCHANGED <<args, subs, proc, handles, i, current_time, start_seconds,
                   end_seconds, clips,
                   subclips, result>>

\* The empty-list test with the list taken for non-empty whatever it holds.
NeverEmpty(ivs) == FALSE

\* len(intervals) == 0
EmptyIntervals(ivs) == Len(ivs) = 0

\* if len(intervals) == 0: raise ValueError("Intervals must not be empty")
SegCheck ==
    /\ pc = "seg_check"
    /\ IF EmptyIntervals(intervals)
       THEN /\ Throw(Escapes("ValueError"), "EmptyInput")
            /\ i' = i
       ELSE /\ pc' = "seg_loop"
            /\ i' = 1
            /\ UNCHANGED <<err, exc>>
    /\ UNCHANGED <<args, subs, proc, handles, video, current_time,
                   start_seconds, end_seconds,
                   clips, subclips, result, calls>>

\* The end of an interval: parse_time_with_end(end_time, video.duration) in
\* trimming.py, time_to_seconds(end_time) in main.py.
SegEnd(text) ==
    IF via = "config"
    THEN time_to_seconds(text)
    ELSE parse_time_with_end(text, duration)

\* subclips.append with the new subclip put first.
Prepend(list, clip) == <<clip>> \o list

\* subclips.append(subclip)
AppendClip(list, clip) == Append(list, clip)

\* One pass of the loop over intervals: both times are parsed, then the
\* engine cuts the subclip.  A ValueError is raised again as it is, any
\* other exception as Exception("Error cutting the video: ...").
SegInterval ==
    /\ pc = "seg_loop"
    /\ i <= Len(intervals)
    /\ LET s == time_to_seconds(intervals[i][1])
           e == SegEnd(intervals[i][2])
       IN IF ~s.ok
          THEN /\ Throw(Escapes("ValueError"), s.kind)
               /\ UNCHANGED <<i, start_seconds, end_seconds, subclips, calls>>
          ELSE IF ~e.ok
               THEN /\ Throw(Escapes("ValueError"), e.kind)
                    /\ start_seconds' = s.val
                    /\ UNCHANGED <<i, end_seconds, subclips, calls>>
               ELSE /\ start_seconds' = s.val
                    /\ end_seconds' = e.val
                    /\ Call("subclipped")
                    /\ \/ /\ subclips' = AppendClip(subclips, <<s.val, e.val>>)
                          /\ i' = i + 1
                          /\ UNCHANGED <<pc, err, exc>>
                       \/ /\ \E ty \in EngineExceptions :
                                Throw(Escapes(IF ty = "ValueError"
                                              THEN "ValueError"
                                              ELSE "Exception"), "EngineError")
                          /\ UNCHANGED <<i, subclips>>
    /\ UNCHANGED <<args, subs, proc, handles, video, current_time, clips,
                   result>>

\* return subclips, audio_clips
SegReturn ==
    /\ pc = "seg_loop"
    /\ i > Len(intervals)
    /\ pc' = "trim_out"
    /\ UNCHANGED <<args, subs, proc, handles, locals, err, exc, calls>>

\* output_path is None: the concatenation is returned.  Otherwise the
\* subclips are written one by one into the directory, or concatenated and
\* written to the file.
TrimOut ==
    /\ pc = "trim_out"
    /\ IF output_path = "dir"
       THEN /\ pc' = "trim_write"
            /\ i' = 1
            /\ UNCHANGED <<err, exc, calls>>
       ELSE /\ Call("concatenate")
            /\ \/ /\ IF output_path = "None"
                     THEN Return
                     ELSE pc' = "trim_write" /\ UNCHANGED <<err, exc>>
                  /\ i' = 1
               \/ /\ \E ty \in EngineExceptions :
                        Throw(Escapes(IF output_path = "None" THEN ty
                                      ELSE "Exception"), "EngineError")
                  /\ i' = i
    /\ UNCHANGED <<args, subs, proc, handles, video, current_time,
                   start_seconds, end_seconds,
                   clips, subclips, result>>

\* The clips to write: every subclip into the directory, or the one
\* concatenated video.
TrimWrites == IF output_path = "dir" THEN Len(subclips) ELSE 1

\* write_videofile
TrimWrite ==
    /\ pc = "trim_write"
    /\ IF i > TrimWrites
       THEN Return /\ UNCHANGED <<i, calls>>
       ELSE /\ Call("write")
            /\ \/ i' = i + 1 /\ UNCHANGED <<pc, err, exc>>
               \/ Throw("Exception", "EngineError") /\ i' = i
    /\ UNCHANGED <<args, subs, proc, handles, video, current_time,
                   start_seconds, end_seconds,
                   clips, subclips, result>>

TrimVideoByIntervals ==
    \/ TrimEnter
    \/ SegLoad
    \/ SegCheck
    \/ SegInterval
    \/ SegReturn
    \/ TrimOut
    \/ TrimWrite

(***************************************************************************)
(* cut_video_with_sliding_window(video_path, window_length, slide_step,    *)
(* start_time, end_time, output_dir).  From the load of the video on, the  *)
(* body is one try block: every exception is raised again as               *)
(* Exception("Error processing video: ..."), and the finally clause closes *)
(* the video.                                                              *)
(***************************************************************************)
\* window_length <= 0 or slide_step <= 0
NotPositive(w, step) == w <= 0 \/ step <= 0

\* The comparison of window and step with the equal case rejected too.
NotLongerThanStep(w, step) == w <= step

\* window_length < slide_step
ShorterThanStep(w, step) == w < step

WinEnter ==
    /\ op = "cut_video_with_sliding_window"
    /\ pc = "start"
    /\ \E exists \in BOOLEAN :
          IF ~exists
          THEN Throw("FileNotFoundError", "FileNotFound")
          ELSE IF NotPositive(window_length, slide_step)
               THEN Throw("ValueError", "InvalidParameter")
               ELSE IF ShorterThanStep(window_length, slide_step)
                    THEN Throw("ValueError", "InvalidParameter")
                    ELSE pc' = "win_load" /\ UNCHANGED <<err, exc>>
    /\ UNCHANGED <<args, subs, proc, handles, locals, calls>>

\* finally: if 'video' in locals(): video.close()
WinFinally(calls1) ==
    IF video = "open"
    THEN video' = "closed" /\ calls' = Append(calls1, "close")
    ELSE video' = video /\ calls' = calls1

\* video = VideoFileClip(video_path)
WinLoad ==
    /\ pc = "win_load"
    /\ \/ /\ video' = "open"
          /\ Call("load")
          /\ pc' = "win_resolve"
          /\ UNCHANGED <<err, exc>>
       \/ /\ Throw("Exception", "EngineError")
          /\ WinFinally(Append(calls, "load"))
    /\ UNCHANGED <<args, subs, proc, handles, i, current_time, start_seconds,
                   end_seconds, clips,
                   subclips, result>>

\* end_seconds: parse_time_with_end(end_time, video.duration) if end_time
\* is given, video.duration otherwise.
WinEnd ==
    IF end_time # NoneText
    THEN parse_time_with_end(end_time, duration)
    ELSE Ok(duration)

\* start_seconds < 0 or end_seconds > video.duration
OutOfRange(s, e, d) == s < 0 \/ e > d

\* The two times are resolved and checked against the duration.
WinResolve ==
    /\ pc = "win_resolve"
    /\ LET s == time_to_seconds(start_time)
           e == WinEnd
       IN IF ~s.ok
          THEN /\ Throw("Exception", s.kind)
               /\ WinFinally(calls)
               /\ UNCHANGED <<start_seconds, end_seconds, current_time>>
          ELSE IF ~e.ok
               THEN /\ Throw("Exception", e.kind)
                    /\ WinFinally(calls)
                    /\ start_seconds' = s.val
                    /\ UNCHANGED <<end_seconds, current_time>>
               ELSE /\ start_seconds' = s.val
                    /\ end_seconds' = e.val
                    /\ IF OutOfRange(s.val, e.val, duration)
                       THEN /\ Throw("Exception", "InvalidRange")
                            /\ WinFinally(calls)
                            /\ UNCHANGED current_time
                       ELSE /\ current_time' = s.val
                            /\ pc' = "win_loop"
                            /\ UNCHANGED <<video, calls, err, exc>>
    /\ UNCHANGED <<args, subs, proc, handles, i, clips, subclips, result>>

\* The loop test with a window let through as soon as it starts before the
\* end.
StartsBeforeEnd(cur, w, e) == cur < e

\* current_time + window_length <= end_seconds
WindowFits(cur, w, e) == cur + w <= e

\* One pass of the while loop.
\* The step of the cursor left out.
Stays(cur, step) == cur

\* current_time += slide_step
Advance(cur, step) == cur + step

WinLoop ==
    /\ pc = "win_loop"
    /\ WindowFits(current_time, window_length, end_seconds)
    /\ \/ /\ Call("subclipped")
          /\ clips' = AppendClip(clips, <<current_time,
                                          current_time + window_length>>)
          /\ current_time' = Advance(current_time, slide_step)
          /\ UNCHANGED <<pc, video, err, exc>>
       \/ /\ Throw("Exception", "EngineError")
          /\ WinFinally(Append(calls, "subclipped"))
          /\ UNCHANGED <<clips, current_time>>
    /\ UNCHANGED <<args, subs, proc, handles, i, start_seconds, end_seconds,
                   subclips, result>>

\* The loop is left; with no output_dir the clips are returned.
WinOut ==
    /\ pc = "win_loop"
    /\ ~WindowFits(current_time, window_length, end_seconds)
    /\ IF output_path = "None"
       THEN /\ Return
            /\ WinFinally(calls)
            /\ i' = i
       ELSE /\ pc' = "win_write"
            /\ i' = 1
            /\ calls' = IF output_path = "newdir"
                        THEN Append(calls, "makedirs")
                        ELSE calls
            /\ UNCHANGED <<video, err, exc>>
    /\ UNCHANGED <<args, subs, proc, handles, current_time, start_seconds,
                   end_seconds, clips,
                   subclips, result>>

\* clip.write_videofile for every clip, then return None.
WinWrite ==
    /\ pc = "win_write"
    /\ IF i > Len(clips)
       THEN /\ Return
            /\ WinFinally(calls)
            /\ i' = i
       ELSE \/ /\ Call("write")
               /\ i' = i + 1
               /\ UNCHANGED <<pc, video, err, exc>>
            \/ /\ Throw("Exception", "EngineError")
               /\ WinFinally(Append(calls, "write"))
               /\ i' = i
    /\ UNCHANGED <<args, subs, proc, handles, current_time, start_seconds,
                   end_seconds, clips,
                   subclips, result>>

CutVideoWithSlidingWindow ==
    \/ WinEnter
    \/ WinLoad
    \/ WinResolve
    \/ WinLoop
    \/ WinOut
    \/ WinWrite

(***************************************************************************)
(* change_playback_speed(video_path, speed, output_path, intervals).  An   *)
(* entry of clips is the source range of a clip and the factor it plays    *)
(* at: 1 for a clip left at normal speed.  The whole body after the check  *)
(* of the path is one try block: every exception is raised again as        *)
(* Exception("Error processing video: ...").                               *)
(***************************************************************************)
Entry(s, e, f) == [s |-> s, e |-> e, f |-> f]

SpeedEnter ==
    /\ op = "change_playback_speed"
    /\ pc = "start"
    /\ \E exists \in BOOLEAN :
          IF ~exists
          THEN Throw("FileNotFoundError", "FileNotFound")
          ELSE pc' = "speed_load" /\ UNCHANGED <<err, exc>>
    /\ UNCHANGED <<args, subs, proc, handles, locals, calls>>

\* video = VideoFileClip(video_path)
SpeedLoad ==
    /\ pc = "speed_load"
    /\ Call("load")
    /\ \/ /\ video' = "open"
          /\ pc' = IF intervals = NoneList THEN "speed_whole" ELSE "speed_loop"
          /\ i' = 1
          /\ UNCHANGED <<err, exc>>
       \/ /\ Throw("Exception", "EngineError")
          /\ UNCHANGED <<video, i>>
    /\ UNCHANGED <<args, subs, proc, handles, current_time, start_seconds,
                   end_seconds, clips,
                   subclips, result>>

\* intervals is None: video.with_speed_scaled(speed)
SpeedWhole ==
    /\ pc = "speed_whole"
    /\ Call("with_speed_scaled")
    /\ \/ /\ clips' = <<Entry(0, duration, speed)>>
          /\ pc' = "speed_audio"
          /\ UNCHANGED <<err, exc>>
       \/ /\ Throw("Exception", "EngineError")
          /\ UNCHANGED clips
    /\ UNCHANGED <<args, subs, proc, handles, video, i, current_time,
                   start_seconds, end_seconds,
                   subclips, result>>

\* The test for the normal-speed part with an empty part let through.
NotAfter(cur, s) == s >= cur

\* start_seconds > current_time
PartBefore(cur, s) == s > cur

\* The engine calls of one pass of the loop, in order.
PassCalls(cur, s) ==
    (IF PartBefore(cur, s) THEN <<"subclipped">> ELSE <<>>)
    \o <<"subclipped", "with_speed_scaled">>

\* The clips one pass of the loop appends.
PassClips(cur, s, e) ==
    (IF PartBefore(cur, s) THEN <<Entry(cur, s, 1)>> ELSE <<>>)
    \o <<Entry(s, e, speed)>>

\* One pass of the loop over intervals: the times are parsed, the part
\* before the interval is cut at normal speed, the interval is cut and
\* scaled, and current_time moves to the end of the interval.  The engine
\* may raise in any of the calls.
SpeedInterval ==
    /\ pc = "speed_loop"
    /\ i <= Len(intervals)
    /\ LET s == time_to_seconds(intervals[i][1])
           e == parse_time_with_end(intervals[i][2], duration)
       IN IF ~s.ok
          THEN /\ Throw("Exception", s.kind)
               /\ UNCHANGED <<i, current_time, start_seconds, end_seconds,
                              clips, calls>>
          ELSE IF ~e.ok
               THEN /\ Throw("Exception", e.kind)
                    /\ start_seconds' = s.val
                    /\ UNCHANGED <<i, current_time, end_seconds, clips, calls>>
               ELSE /\ start_seconds' = s.val
                    /\ end_seconds' = e.val
                    /\ \/ /\ calls' = calls \o PassCalls(current_time, s.val)
                          /\ clips' = clips \o PassClips(current_time, s.val, e.val)
                          /\ current_time' = e.val
                          /\ i' = i + 1
                          /\ UNCHANGED <<pc, err, exc>>
                       \/ /\ \E n \in 1..Len(PassCalls(current_time, s.val)) :
                                /\ calls' = calls \o
                                      SubSeq(PassCalls(current_time, s.val), 1, n)
                                /\ clips' = clips \o
                                      (IF PartBefore(current_time, s.val) /\ n > 1
                                       THEN <<Entry(current_time, s.val, 1)>>
                                       ELSE <<>>)
                          /\ Throw("Exception", "EngineError")
                          /\ UNCHANGED <<i, current_time>>
    /\ UNCHANGED <<args, subs, proc, handles, video, subclips, result>>

\* current_time < video.duration
PartAfter(cur, d) == cur < d

\* After the loop: the part after the last interval at normal speed, then
\* concatenate_videoclips(clips).
SpeedRest ==
    /\ pc = "speed_loop"
    /\ i > Len(intervals)
    /\ LET rest == IF PartAfter(current_time, duration)
                   THEN <<"subclipped">>
                   ELSE <<>>
       IN \/ /\ calls' = calls \o rest \o <<"concatenate">>
             /\ clips' = clips \o
                   (IF PartAfter(current_time, duration)
                    THEN <<Entry(current_time, duration, 1)>>
                    ELSE <<>>)
             /\ pc' = "speed_audio"
             /\ UNCHANGED <<err, exc>>
          \/ /\ \E n \in 1..(Len(rest) + 1) :
                   /\ calls' = calls \o SubSeq(rest \o <<"concatenate">>, 1, n)
                   /\ clips' = clips \o
                         (IF PartAfter(current_time, duration) /\ n > 1
                          THEN <<Entry(current_time, duration, 1)>>
                          ELSE <<>>)
             /\ Throw("Exception", "EngineError")
    /\ UNCHANGED <<args, subs, proc, handles, video, i, current_time,
                   start_seconds, end_seconds,
                   subclips, result>>

\* if video.audio: the audio of a video scaled as a whole is scaled too; an
\* exception of the engine is printed as a warning and dropped.  For a
\* video scaled by intervals the audio is left as it is.
SpeedAudio ==
    /\ pc = "speed_audio"
    /\ \E audio \in BOOLEAN :
          calls' = IF audio /\ intervals = NoneList
                   THEN Append(calls, "audio.with_speed_scaled")
                   ELSE calls
    /\ pc' = "speed_write"
    /\ UNCHANGED <<args, subs, proc, handles, locals, err, exc>>

\* write_videofile, then video.close() and video_with_new_speed.close()
SpeedWrite ==
    /\ pc = "speed_write"
    /\ \/ /\ calls' = calls \o <<"write", "close", "close">>
          /\ video' = "closed"
          /\ Return
       \/ /\ Call("write")
          /\ Throw("Exception", "EngineError")
          /\ UNCHANGED video
    /\ UNCHANGED <<args, subs, proc, handles, i, current_time, start_seconds,
                   end_seconds, clips,
                   subclips, result>>

ChangePlaybackSpeed ==
    \/ SpeedEnter
    \/ SpeedLoad
    \/ SpeedWhole
    \/ SpeedInterval
    \/ SpeedRest
    \/ SpeedAudio
    \/ SpeedWrite

(***************************************************************************)
(* time_to_seconds(time_str), called on its own.                           *)
(***************************************************************************)
TimeToSeconds ==
    /\ op = "time_to_seconds"
    /\ pc = "start"
    /\ LET r == time_to_seconds(time_str)
       IN IF r.ok
          THEN result' = r.val /\ Return
          ELSE result' = result /\ Throw("ValueError", r.kind)
    /\ UNCHANGED <<args, subs, proc, handles, video, i, current_time,
                   start_seconds,
                   end_seconds, clips, subclips, calls>>

(***************************************************************************)
(* parse_time and format_time, each followed by the other on its result.   *)
(***************************************************************************)
\* parse_time(time_str), and parse_time of the text format_time returned
ParseTime ==
    /\ \/ op = "parse_time" /\ pc = "start"
       \/ op = "format_time" /\ pc = "back"
    /\ LET r == parse_time(IF op = "parse_time" THEN time_str ELSE formatted)
       IN IF r.ok
          THEN /\ parsed' = r.val
               /\ pc' = IF op = "parse_time" THEN "back" ELSE "done"
               /\ UNCHANGED <<err, exc>>
          ELSE /\ parsed' = parsed
               /\ Throw("ValueError", r.kind)
    /\ UNCHANGED <<args, locals, proc, handles, sub_call, first_out, outfile,
                   out_exists,
                   formatted, calls>>

\* format_time(time_delta), and format_time of the timedelta parse_time
\* returned
FormatTime ==
    /\ \/ op = "format_time" /\ pc = "start"
       \/ op = "parse_time" /\ pc = "back"
    /\ formatted' = format_time(IF op = "format_time" THEN time_delta
                                ELSE parsed)
    /\ pc' = IF op = "format_time" THEN "back" ELSE "done"
    /\ UNCHANGED <<args, locals, proc, handles, sub_call, first_out, outfile,
                   out_exists,
                   parsed, err, exc, calls>>

(***************************************************************************)
(* change_subtitle_speed(subtitle_path, speed, output_path).  Both files   *)
(* are opened in text mode before the first line is read; each line is     *)
(* written when it has been processed.  Every exception inside the with    *)
(* block is raised again as Exception("Error processing subtitle file:     *)
(* ..."), after the files have been closed.                                *)
(***************************************************************************)
\* The lines of the file the running call reads.
Infile == IF sub_call = 1 THEN lines ELSE first_out

\* The speed of the running call with the second call given 1.
SecondAtOne == IF sub_call = 1 THEN subtitle_speed ELSE <<1, 1>>

\* The speed of the running call: the second call is given 1 / speed.
CallSpeed ==
    IF sub_call = 1
    THEN subtitle_speed
    ELSE <<subtitle_speed[2], subtitle_speed[1]>>

\* A line as the text-mode file yields it: a line end "\r\n" or "\r" is
\* read as "\n".
ReadLine(raw) ==
    LET n == Len(raw)
    IN IF n >= 2 /\ raw[n - 1] = "\r" /\ raw[n] = "\n"
       THEN SubSeq(raw, 1, n - 2) \o LF
       ELSE IF n >= 1 /\ raw[n] = "\r"
            THEN SubSeq(raw, 1, n - 1) \o LF
            ELSE raw

\* A text as the text-mode file stores it: "\n" is written as os.linesep.
RECURSIVE Written(_)
Written(text) ==
    IF Len(text) = 0
    THEN <<>>
    ELSE (IF Head(text) = "\n" THEN linesep ELSE <<Head(text)>>)
         \o Written(Tail(text))

\* The test of a timing line with the spaces of the marker asked for too.
HasMarker(line) == Contains(line, Marker)

\* '-->' in line
HasArrow(line) == Contains(line, Arrow)

\* if not os.path.exists(subtitle_path): raise FileNotFoundError
SubEnter ==
    /\ op = "change_subtitle_speed"
    /\ pc = "start"
    /\ \E exists \in BOOLEAN :
          IF ~exists
          THEN Throw("FileNotFoundError", "FileNotFound")
          ELSE pc' = "sub_open" /\ UNCHANGED <<err, exc>>
    /\ UNCHANGED <<args, locals, proc, handles, subs, calls>>

\* with open(subtitle_path, 'r') as infile, open(output_path, 'w') as
\* outfile: the output file is created, or emptied, here.
SubOpen ==
    /\ pc = "sub_open"
    /\ \/ /\ out_exists' = TRUE
          /\ outfile' = <<>>
          /\ i' = 1
          /\ pc' = "sub_loop"
          /\ UNCHANGED <<err, exc>>
       \/ /\ Throw("Exception", "IOError")
          /\ UNCHANGED <<out_exists, outfile, i>>
    /\ UNCHANGED <<args, proc, handles, video, current_time, start_seconds,
                   end_seconds,
                   clips, subclips, result, sub_call, first_out, parsed,
                   formatted, calls>>

\* The timing line written for the parsed start and end.
RetimedLine(s, e) ==
    format_time(Retimed(s, CallSpeed)) \o Marker
    \o format_time(Retimed(e, CallSpeed)) \o LF

\* One pass of `for line in infile`.
SubLine ==
    /\ pc = "sub_loop"
    /\ i <= Len(Infile)
    /\ LET line == ReadLine(Infile[i])
           parts == Split(Strip(line), Marker)
           s == parse_time(parts[1])
           e == parse_time(parts[2])
       IN IF ~HasArrow(line)
          THEN /\ outfile' = Append(outfile, Written(line))
               /\ i' = i + 1
               /\ UNCHANGED <<pc, err, exc>>
          ELSE IF Len(parts) # 2 \/ ~s.ok \/ ~e.ok
               THEN /\ Throw("Exception", "InvalidFormat")
                    /\ UNCHANGED <<outfile, i>>
               ELSE /\ outfile' = Append(outfile,
                                         Written(RetimedLine(s.val, e.val)))
                    /\ i' = i + 1
                    /\ UNCHANGED <<pc, err, exc>>
    /\ UNCHANGED <<args, proc, handles, video, current_time, start_seconds,
                   end_seconds,
                   clips, subclips, result, sub_call, first_out, out_exists,
                   parsed, formatted, calls>>

\* The loop is over and the files are closed: the call returns.
SubReturn ==
    /\ pc = "sub_loop"
    /\ i > Len(Infile)
    /\ Return
    /\ UNCHANGED <<args, locals, proc, handles, subs, calls>>

\* The first call has returned and the caller makes a second one,
\* change_subtitle_speed(output_path, 1 / speed, path2): it reads what the
\* first call wrote and writes another file.
SubAgain ==
    /\ pc = "sub_loop"
    /\ i > Len(Infile)
    /\ sub_call = 1
    /\ sub_call' = 2
    /\ first_out' = outfile
    /\ outfile' = <<>>
    /\ out_exists' = FALSE
    /\ i' = 0
    /\ pc' = "start"
    /\ UNCHANGED <<args, proc, handles, video, current_time, start_seconds,
                   end_seconds,
                   clips, subclips, result, parsed, formatted, err, exc,
                   calls>>

ChangeSubtitleSpeed ==
    \/ SubEnter
    \/ SubOpen
    \/ SubLine
    \/ SubReturn
    \/ SubAgain

(***************************************************************************)
(* process_video(config) of main.py.  i is the position of the key the     *)
(* loop is at, started the operations called so far, written the           *)
(* operations that have written their output.                              *)
(***************************************************************************)
\* A branch that tests nothing before its call.
NothingMissing(e) == FALSE

\* `if not all([...])`: a parameter the branch tests is not in params.
MissingParams(e) == e.missing \in Required(e.name)

\* The branch passes no output path: the operation returns its clips and
\* writes nothing.
Writes(e) == e.missing \notin {"output_path", "output_dir"}

\* What an operation raises; process_video wraps it in Exception.
OperationErrors == {"FileNotFound", "InvalidRange", "EngineError"}

\* for operation, params in config.items(): the next key, the branch it
\* selects and the test of its parameters.  A key no branch matches is
\* passed over.
PvNext ==
    /\ op = "process_video"
    /\ pc = "start"
    /\ IF i = Len(config)
       THEN Return /\ UNCHANGED <<i, started>>
       ELSE LET e == config[i + 1]
            IN /\ i' = i + 1
               /\ IF e.name \notin Operations
                  THEN UNCHANGED <<pc, err, exc, started>>
                  ELSE IF MissingParams(e)
                       THEN /\ Throw("ValueError", "MissingParameter")
                            /\ UNCHANGED started
                       ELSE /\ pc' = "pv_call"
                            /\ started' = Append(started, e.name)
                            /\ UNCHANGED <<err, exc>>
    /\ UNCHANGED <<args, subs, handles, written, calls>>
    /\ UNCHANGED <<video, current_time, start_seconds, end_seconds, clips,
                   subclips, result>>

\* try: operation(...) except Exception as e: raise Exception(...).  The
\* operation returns or raises; one that raises may have written a part of
\* its output.
PvCall ==
    /\ op = "process_video"
    /\ pc = "pv_call"
    /\ LET e == config[i]
       IN \/ /\ pc' = "start"
             /\ written' = IF Writes(e) THEN Append(written, e.name)
                           ELSE written
             /\ UNCHANGED <<err, exc>>
          \/ /\ \E k \in OperationErrors : Throw("Exception", k)
             /\ \/ written' = written
                \/ Writes(e) /\ written' = Append(written, e.name)
    /\ UNCHANGED <<args, locals, subs, handles, started, calls>>

ProcessVideo ==
    \/ PvNext
    \/ PvCall

(***************************************************************************)
(* concat_videos(video_paths, output_path) of concatenation.py.  videos    *)
(* holds the handles loaded so far; no statement of the function closes    *)
(* one.                                                                    *)
(***************************************************************************)
\* for video_path in video_paths: os.path.exists, videos.append(
\* VideoFileClip(video_path))
ConcatLoad ==
    /\ op = "concat_videos"
    /\ pc = "start"
    /\ IF i = Len(video_paths)
       THEN pc' = "concat_join" /\ UNCHANGED <<i, videos, calls, err, exc>>
       ELSE \E exists \in BOOLEAN :
               IF ~exists
               THEN /\ Throw("FileNotFoundError", "FileNotFound")
                    /\ UNCHANGED <<i, videos, calls>>
               ELSE /\ Call("load")
                    /\ \/ /\ videos' = Append(videos, "open")
                          /\ i' = i + 1
                          /\ UNCHANGED <<pc, err, exc>>
                       \/ /\ Throw("Exception", "EngineError")
                          /\ UNCHANGED <<i, videos>>
    /\ UNCHANGED <<args, subs, proc, video_segment>>
    /\ UNCHANGED <<video, current_time, start_seconds, end_seconds, clips,
                   subclips, result>>

\* final_clip = concatenate_videoclips(videos), outside every try; with no
\* output_path the clip is returned.
ConcatJoin ==
    /\ pc = "concat_join"
    /\ Call("concatenate")
    /\ \/ IF output_path = "None"
          THEN Return
          ELSE pc' = "concat_write" /\ UNCHANGED <<err, exc>>
       \/ \E ty \in EngineExceptions : Throw(ty, "EngineError")
    /\ UNCHANGED <<args, subs, proc, handles, locals>>

\* final_clip.write_videofile(output_path, ...)
ConcatWrite ==
    /\ pc = "concat_write"
    /\ Call("write")
    /\ \/ Return
       \/ Throw("Exception", "EngineError")
    /\ UNCHANGED <<args, subs, proc, handles, locals>>

ConcatVideos ==
    \/ ConcatLoad
    \/ ConcatJoin
    \/ ConcatWrite

(***************************************************************************)
(* convert_video_to_audio(video_path, output_path, audio_format, ...) of   *)
(* audio_conversion.py.                                                    *)
(***************************************************************************)
\* finally: if video is not None: video.close()
\*          if video_segment is not None: video_segment.close()
Cleanup(calls1) ==
    /\ video' = IF video = "open" THEN "closed" ELSE video
    /\ video_segment' = IF video_segment = "open" THEN "closed"
                        ELSE video_segment
    /\ calls' = calls1 \o (IF video = "open" THEN <<"close">> ELSE <<>>)
                       \o (IF video_segment = "open" THEN <<"close">>
                           ELSE <<>>)

\* os.path.exists(video_path), `if not output_path`, the audio format
ConvEnter ==
    /\ op = "convert_video_to_audio"
    /\ pc = "start"
    /\ \E exists \in BOOLEAN, supported \in BOOLEAN :
          IF ~exists
          THEN Throw("FileNotFoundError", "FileNotFound")
          ELSE IF output_path = "None"
               THEN Throw("ValueError", "InvalidParameter")
               ELSE IF ~supported
                    THEN Throw("ValueError", "InvalidFormat")
                    ELSE pc' = "conv_load" /\ UNCHANGED <<err, exc>>
    /\ UNCHANGED <<args, subs, proc, handles, locals, calls>>

\* video = None; try: video = VideoFileClip(video_path)
ConvLoad ==
    /\ pc = "conv_load"
    /\ Call("load")
    /\ \/ /\ video' = "open"
          /\ pc' = "conv_write"
          /\ UNCHANGED <<err, exc>>
       \/ /\ Throw("Exception", "EngineError")
          /\ UNCHANGED video
    /\ UNCHANGED <<args, subs, proc, handles, i, current_time, start_seconds,
                   end_seconds, clips, subclips, result>>

\* audio = video.audio; audio.write_audiofile(...); except; finally
ConvWrite ==
    /\ pc = "conv_write"
    /\ \E has_audio \in BOOLEAN :
          IF ~has_audio
          THEN Cleanup(calls) /\ Throw("Exception", "EngineError")
          ELSE /\ Cleanup(Append(calls, "write"))
               /\ \/ Return
                  \/ Throw("Exception", "EngineError")
    /\ UNCHANGED <<args, subs, proc, videos, i, current_time, start_seconds,
                   end_seconds, clips, subclips, result>>

ConvertVideoToAudio ==
    \/ ConvEnter
    \/ ConvLoad
    \/ ConvWrite

(***************************************************************************)
(* extract_audio_segment(video_path, output_path, start_time, end_time,    *)
(* ...) of audio_conversion.py.                                            *)
(***************************************************************************)
\* os.path.exists(video_path), `if start_time < 0`
ExtEnter ==
    /\ op = "extract_audio_segment"
    /\ pc = "start"
    /\ \E exists \in BOOLEAN :
          IF ~exists
          THEN Throw("FileNotFoundError", "FileNotFound")
          ELSE IF start_time < 0
               THEN Throw("ValueError", "InvalidRange")
               ELSE pc' = "ext_load" /\ UNCHANGED <<err, exc>>
    /\ UNCHANGED <<args, subs, proc, handles, locals, calls>>

\* video = None; video_segment = None; try: video = VideoFileClip(video_path)
ExtLoad ==
    /\ pc = "ext_load"
    /\ Call("load")
    /\ \/ /\ video' = "open"
          /\ pc' = "ext_cut"
          /\ UNCHANGED <<err, exc>>
       \/ /\ Throw("Exception", "EngineError")
          /\ UNCHANGED video
    /\ UNCHANGED <<args, subs, proc, handles, i, current_time, start_seconds,
                   end_seconds, clips, subclips, result>>

\* The checks of end_time inside the try, then
\* video_segment = video.subclipped(start_time, end_time)
ExtCut ==
    /\ pc = "ext_cut"
    /\ IF end_time # None /\ (end_time > duration \/ end_time <= start_time)
       THEN /\ Cleanup(calls)
            /\ Throw("Exception", "InvalidRange")
            /\ UNCHANGED end_seconds
       ELSE /\ end_seconds' = IF end_time = None THEN duration ELSE end_time
            /\ \/ /\ video_segment' = "open"
                  /\ Call("subclipped")
                  /\ pc' = "ext_write"
                  /\ UNCHANGED <<video, err, exc>>
               \/ /\ Cleanup(Append(calls, "subclipped"))
                  /\ Throw("Exception", "EngineError")
    /\ UNCHANGED <<args, subs, proc, videos, i, current_time, start_seconds,
                   clips, subclips, result>>

\* audio = video_segment.audio; audio.write_audiofile(...); except; finally
ExtWrite ==
    /\ pc = "ext_write"
    /\ \E has_audio \in BOOLEAN :
          IF ~has_audio
          THEN Cleanup(calls) /\ Throw("Exception", "EngineError")
          ELSE /\ Cleanup(Append(calls, "write"))
               /\ \/ Return
                  \/ Throw("Exception", "EngineError")
    /\ UNCHANGED <<args, subs, proc, videos, i, current_time, start_seconds,
                   end_seconds, clips, subclips, result>>

ExtractAudioSegment ==
    \/ ExtEnter
    \/ ExtLoad
    \/ ExtCut
    \/ ExtWrite

Next ==
    \/ ParseTimeWithEnd
    \/ TimeToSeconds
    \/ ParseTime
    \/ FormatTime
    \/ ChangeSubtitleSpeed
    \/ TrimVideoByIntervals
    \/ CutVideoWithSlidingWindow
    \/ ChangePlaybackSpeed
    \/ ProcessVideo
    \/ ConcatVideos
    \/ ConvertVideoToAudio
    \/ ExtractAudioSegment

Spec == Init /\ [][Next]_vars

(***************************************************************************)
(* Vocabulary of the properties.                                           *)
(***************************************************************************)
Finished == pc = "done"

Succeeded == pc = "done" /\ err = "none"

Called(fn) == \E k \in 1..Len(calls) : calls[k] = fn

\* The two times of an interval as the operations of trimming.py and
\* speed.py resolve them.
StartOf(iv) == time_to_seconds(iv[1])

EndOf(iv) == parse_time_with_end(iv[2], duration)

\* Both times of every interval parse.
Parses(ivs) == \A k \in 1..Len(ivs) : StartOf(ivs[k]).ok /\ EndOf(ivs[k]).ok

\* Every interval is a non-empty range inside the media: a range the engine
\* is able to cut.
EachInsideMedia(ivs) ==
    /\ Parses(ivs)
    /\ \A k \in 1..Len(ivs) :
          /\ StartOf(ivs[k]).val < EndOf(ivs[k]).val
          /\ EndOf(ivs[k]).val <= duration

\* The cursor of the speed map before interval k: the end of interval k-1.
CursorBefore(ivs, k) == IF k = 1 THEN 0 ELSE EndOf(ivs[k - 1]).val

\* Non-decreasing, non-overlapping order: no interval starts before the
\* cursor.
Ordered(ivs) ==
    /\ Parses(ivs)
    /\ \A k \in 1..Len(ivs) : StartOf(ivs[k]).val >= CursorBefore(ivs, k)

\* The entries tile [0, d]: the first starts at 0, each starts where the one
\* before it ended, the last ends at d, and no two overlap.
Tiles(entries, d) ==
    IF entries = <<>>
    THEN d = 0
    ELSE /\ entries[1].s = 0
         /\ entries[Len(entries)].e = d
         /\ \A k \in 1..Len(entries) : entries[k].s <= entries[k].e
         /\ \A k \in 1..(Len(entries) - 1) : entries[k + 1].s = entries[k].e

SpeedCall == op = "change_playback_speed"

\* The speed map is complete: the loop over the intervals is left and the
\* clips are concatenated.
SpeedMapBuilt ==
    /\ SpeedCall
    /\ pc \in {"speed_audio", "speed_write"} \/ Succeeded

(***************************************************************************)
(* C1.  The entries of the speed map tile [0, duration] exactly, for every *)
(* interval list change_playback_speed accepts and when there is no list.  *)
(* Stated for the lists the engine is able to cut (every interval a        *)
(* non-empty range inside the media).  The code does not hold it: it       *)
(* accepts intervals that are out of order (C2), and their entries         *)
(* overlap.                                                                *)
(***************************************************************************)
C1_SpeedMapTiles ==
    (SpeedCall /\ Succeeded
        /\ (intervals = NoneList \/ EachInsideMedia(intervals)))
    => Tiles(clips, duration)

(***************************************************************************)
(* C2.  An interval list with an interval that starts before the cursor is *)
(* rejected with InvalidRange: its speed map is never completed and        *)
(* nothing is written.  The code has no such check.                        *)
(***************************************************************************)
C2_OutOfOrderRejected ==
    (SpeedCall /\ intervals # NoneList /\ EachInsideMedia(intervals)
        /\ ~Ordered(intervals))
    => /\ ~SpeedMapBuilt
       /\ ~Called("concatenate")
       /\ ~Called("write")
       /\ Finished /\ err # "FileNotFound" /\ err # "EngineError"
             => err = "InvalidRange"

(***************************************************************************)
(* C3.  The speed map is the reference construction: with no list the one  *)
(* entry [0, D] at the factor; with an ordered list, for each interval in  *)
(* input order a factor-1 entry [cursor, s] if s > cursor, then the scaled *)
(* entry [s, e], and at the end a factor-1 entry [cursor, D] if            *)
(* cursor < D.  D = 10, factor 2, [{2, 4}] gives [0,2]@1, [2,4]@2,         *)
(* [4,10]@1.                                                               *)
(***************************************************************************)
RECURSIVE RefEntries(_, _, _)
RefEntries(ivs, k, cursor) ==
    IF k > Len(ivs)
    THEN IF cursor < duration THEN <<Entry(cursor, duration, 1)>> ELSE <<>>
    ELSE LET s == StartOf(ivs[k]).val
             e == EndOf(ivs[k]).val
         IN (IF s > cursor THEN <<Entry(cursor, s, 1)>> ELSE <<>>)
            \o <<Entry(s, e, speed)>>
            \o RefEntries(ivs, k + 1, e)

RefSpeedMap ==
    IF intervals = NoneList
    THEN <<Entry(0, duration, speed)>>
    ELSE RefEntries(intervals, 1, 0)

C3_Example ==
    /\ SpeedCall
    /\ duration = 10
    /\ speed = 2
    /\ intervals = << <<T_0002, T_0004>> >>

C3_SpeedMapIsReference ==
    /\ (SpeedMapBuilt /\ (intervals = NoneList \/ Ordered(intervals)))
          => clips = RefSpeedMap
    /\ (SpeedMapBuilt /\ C3_Example)
          => clips = <<Entry(0, 2, 1), Entry(2, 4, 2), Entry(4, 10, 1)>>

C3_Witness == SpeedMapBuilt /\ C3_Example /\ Succeeded /\ Len(clips) = 3

(***************************************************************************)
(* C4.  The sliding window emits exactly the intervals                     *)
(* [start + k*step, start + k*step + window] for k = 0 .. n-1 in that      *)
(* order, n the number of k >= 0 with start + k*step + window <= end:      *)
(* every clip is window_length long, none ends after the end, a last       *)
(* window that would pass the end is dropped.  D = 10, window 3, step 2,   *)
(* start 0 gives [0,3], [2,5], [4,7], [6,9].                               *)
(***************************************************************************)
WindowCall == op = "cut_video_with_sliding_window"

\* The while loop is left.
WindowsCut == WindowCall /\ (pc = "win_write" \/ Succeeded)

RefWindowCount ==
    Cardinality({k \in 0..end_seconds :
                    start_seconds + k * slide_step + window_length <= end_seconds})

RefWindows ==
    [k \in 1..RefWindowCount |->
        <<start_seconds + (k - 1) * slide_step,
          start_seconds + (k - 1) * slide_step + window_length>>]

C4_Example ==
    /\ WindowCall
    /\ duration = 10
    /\ window_length = 3
    /\ slide_step = 2
    /\ start_time = T_0000
    /\ end_time = NoneText

C5_OutsideMediaRejected ==
    (/\ WindowCall
     /\ time_to_seconds(start_time).ok
     /\ WinEnd.ok
     /\ \/ time_to_seconds(start_time).val > duration
        \/ WinEnd.val > duration)
    => /\ pc \notin {"win_loop", "win_write"}
       /\ ~Succeeded
       /\ clips = <<>>
       /\ (Finished /\ video = "closed") => err = "InvalidRange"

(***************************************************************************)
(* C6.  The sliding window rejects window_length <= 0, slide_step <= 0 and *)
(* window_length < slide_step with InvalidParameter, before anything is    *)
(* loaded or cut; window_length = slide_step is accepted.                  *)
(***************************************************************************)
C6_BadParametersRejected ==
    WindowCall =>
       /\ (/\ \/ window_length <= 0
              \/ slide_step <= 0
              \/ window_length < slide_step
           /\ pc # "start"
           /\ err # "FileNotFound")
          => /\ Finished
             /\ err = "InvalidParameter"
             /\ exc = "ValueError"
             /\ calls = <<>>
             /\ clips = <<>>
       /\ (window_length > 0 /\ slide_step > 0 /\ window_length >= slide_step)
          => err # "InvalidParameter"

C6_Witness ==
    /\ WindowCall
    /\ err = "InvalidParameter"
    /\ window_length > 0
    /\ slide_step > window_length

(***************************************************************************)
(* C7.  The interval pass of trim_video_by_intervals fails with            *)
(* InvalidRange, and returns no segment list, for a list that holds an     *)
(* interval whose resolved end is not after its start, as                  *)
(* ("01:00", "00:30") with D = 120.  Stated for the lists whose times all  *)
(* lie inside the media.  The code of trimming.py compares no end with     *)
(* its start: it hands both to the engine.                                 *)
(***************************************************************************)
TrimCall == op = "trim_video_by_intervals"

\* _segment_video_by_intervals has returned its subclips.
Segmented == TrimCall /\ (pc \in {"trim_out", "trim_write"} \/ Succeeded)

C7_InvertedRejected ==
    (/\ TrimCall
     /\ via = "direct"
     /\ Parses(intervals)
     /\ \A k \in 1..Len(intervals) :
           /\ StartOf(intervals[k]).val < duration
           /\ EndOf(intervals[k]).val <= duration
     /\ \E k \in 1..Len(intervals) :
           EndOf(intervals[k]).val <= StartOf(intervals[k]).val)
    => /\ ~Segmented
       /\ ~Called("subclipped")
       /\ (Finished /\ video = "open") => err = "InvalidRange"

(***************************************************************************)
(* C8.  For a non-empty list of individually valid intervals the interval  *)
(* pass of trimming.py returns one segment for each interval, the k-th     *)
(* being (time_to_seconds(start), parse_time_with_end(end, D)) of the k-th *)
(* interval: input order is kept, nothing is sorted, merged or dropped,    *)
(* and no check of the code rejects a list whose intervals overlap or are  *)
(* out of temporal order.                                                  *)
(***************************************************************************)
SegmentOf(iv) == <<StartOf(iv).val, EndOf(iv).val>>

C8_SegmentsInInputOrder ==
    (TrimCall /\ via = "direct") =>
       /\ Segmented =>
             /\ Parses(intervals)
             /\ Len(subclips) = Len(intervals)
             /\ \A k \in 1..Len(intervals) :
                   subclips[k] = SegmentOf(intervals[k])
       /\ pc = "seg_loop" =>
             /\ Len(subclips) = i - 1
             /\ \A k \in 1..Len(subclips) :
                   subclips[k] = SegmentOf(intervals[k])
       /\ (Len(intervals) > 0 /\ Parses(intervals)) =>
             err \in {"none", "FileNotFound", "EngineError"}

\* A list of two valid intervals, the second starting before the first
\* and overlapping it, is returned as two segments.
C8_Witness ==
    /\ TrimCall
    /\ via = "direct"
    /\ pc = "trim_out"
    /\ Len(subclips) = 2
    /\ subclips[2][1] < subclips[1][1]
    /\ subclips[2][2] > subclips[1][1]
    /\ subclips[1][1] < subclips[1][2]
    /\ subclips[2][1] < subclips[2][2]

(***************************************************************************)
(* C9.  With an empty interval list the interval pass fails with           *)
(* EmptyInput; no segment is cut and nothing is written.  process_video    *)
(* turns an empty list down before it calls the operation.                 *)
(***************************************************************************)
C9_EmptyListRejected ==
    (TrimCall /\ intervals = <<>>) =>
       /\ pc \in {"start", "seg_load", "seg_check", "done"}
       /\ ~Succeeded
       /\ subclips = <<>>
       /\ ~Called("subclipped")
       /\ ~Called("concatenate")
       /\ ~Called("write")
       /\ (Finished /\ video = "open") =>
             /\ err = "EmptyInput"
             /\ exc = "ValueError"
       /\ via = "config" => calls = <<>> /\ video = "unloaded"
       /\ (via = "config" /\ Finished) => err = "MissingParameter"

C9_Witness ==
    /\ TrimCall
    /\ intervals = <<>>
    /\ Finished
    /\ err = "EmptyInput"
    /\ calls = <<"load">>

(***************************************************************************)
(* C10.  parse_time_with_end(text, D): for a text that is "end" in any     *)
(* letter case it returns D when D is known (D >= 0) and fails with        *)
(* MissingDuration when D is None; for every other text it returns what    *)
(* time_to_seconds returns, or fails where time_to_seconds fails,          *)
(* whatever D is.                                                          *)
(***************************************************************************)
EndSpellings ==
    {<<a, b, c>> : a \in {"e", "E"}, b \in {"n", "N"}, c \in {"d", "D"}}

ParseCall == op = "parse_time_with_end"

C10_ResolveEnd ==
    (ParseCall /\ Finished) =>
       IF time_str \in EndSpellings
       THEN IF video_duration = None
            THEN err = "MissingDuration" /\ exc = "ValueError" /\ result = None
            ELSE err = "none" /\ result = video_duration
       ELSE LET r == time_to_seconds(time_str)
            IN IF r.ok
               THEN err = "none" /\ result = r.val
               ELSE err = "InvalidFormat" /\ exc = "ValueError"

C10_Witness ==
    /\ ParseCall
    /\ Finished
    /\ time_str = <<"E", "N", "D">>
    /\ video_duration = 0
    /\ result = 0
    /\ err = "none"

(***************************************************************************)
(* C11.  time_to_seconds accepts every text MM:SS whose seconds are in     *)
(* 0..59, whatever the number of minutes (60 and more included), and       *)
(* returns 60 * minutes + seconds; it fails with InvalidFormat when the    *)
(* seconds are 60 or more.  The code parses with strptime("%M:%S"), whose  *)
(* minutes end at 59: "60:00" is refused.                                  *)
(***************************************************************************)
\* Minutes of two digits or more (no zero in front of more than two), a
\* colon, seconds of two digits.
IsShort(t) ==
    /\ Len(t) >= 5
    /\ t[Len(t) - 2] = ":"
    /\ \A k \in 1..Len(t) : k # Len(t) - 2 => IsDigit(t[k])
    /\ Len(t) > 5 => t[1] # "0"

ShortMinutes(t) == DigitsVal(SubSeq(t, 1, Len(t) - 3))

ShortSeconds(t) == DigitsVal(SubSeq(t, Len(t) - 1, Len(t)))

ShortCall == op = "time_to_seconds"

C11_MinutesUnbounded ==
    (ShortCall /\ Finished /\ IsShort(time_str)) =>
       IF ShortSeconds(time_str) <= 59
       THEN /\ err = "none"
            /\ result = 60 * ShortMinutes(time_str) + ShortSeconds(time_str)
       ELSE err = "InvalidFormat"

(***************************************************************************)
(* C12.  The text "end" is taken as the end of an interval on every path:  *)
(* the intervals of trim_video_by_intervals and of change_playback_speed,  *)
(* the end_time of the sliding window, called directly or by               *)
(* process_video, and it stands for the duration of the media.  The        *)
(* _segment_video_by_intervals of main.py, which process_video runs,       *)
(* parses the end with time_to_seconds: "end" is refused there.            *)
(***************************************************************************)
\* An interval list whose texts all resolve, with "end" among its ends.
EndsWithSentinel(ivs) ==
    /\ ivs # NoneList
    /\ Parses(ivs)
    /\ \E k \in 1..Len(ivs) : ivs[k][2] \in EndSpellings

C12_EndOnEveryPath ==
    /\ ((TrimCall \/ SpeedCall) /\ EndsWithSentinel(intervals) /\ Finished)
          => err \notin {"InvalidFormat", "MissingDuration"}
    /\ (TrimCall /\ EndsWithSentinel(intervals)) =>
          \A k \in 1..Len(subclips) :
             intervals[k][2] \in EndSpellings => subclips[k][2] = duration
    /\ (WindowsCut /\ end_time \in EndSpellings) => end_seconds = duration

(***************************************************************************)
(* C13.  For every zero-padded text HH:MM:SS,mmm (two digits of hours,     *)
(* minutes and seconds in 0..59, milliseconds in 0..999)                   *)
(* format_time(parse_time(s)) is s, and for every timedelta t of whole     *)
(* milliseconds parse_time(format_time(t)) is t.                           *)
(***************************************************************************)
IsLong(t) ==
    /\ Len(t) = 12
    /\ t[3] = ":" /\ t[6] = ":" /\ t[9] = ","
    /\ \A k \in 1..12 : k \notin {3, 6, 9} => IsDigit(t[k])
    /\ DigitsVal(SubSeq(t, 4, 5)) <= 59
    /\ DigitsVal(SubSeq(t, 7, 8)) <= 59

C13_LongRoundTrip ==
    /\ (op = "parse_time" /\ IsLong(time_str)) =>
          /\ pc \in {"back", "done"} => parsed # NoDelta
          /\ Finished => err = "none" /\ formatted = time_str
    /\ (op = "format_time" /\ Finished) =>
          /\ err = "none"
          /\ time_delta.microseconds % 1000 = 0
          /\ parsed = time_delta

C13_Witness ==
    /\ op = "parse_time"
    /\ Finished
    /\ time_str = LongText(<<25, 1, 59, 5>>)
    /\ parsed = [seconds |-> 90119, microseconds |-> 5000]
    /\ formatted = time_str

(***************************************************************************)
(* The subtitle file, line by line.                                        *)
(***************************************************************************)
SubtitleCall == op = "change_subtitle_speed"

\* The texts on the two sides of the marker of a line.
LineParts(raw) == Split(Strip(ReadLine(raw)), Marker)

\* A well-formed timing line: one marker, a timecode on each side.
IsTiming(raw) ==
    /\ Len(LineParts(raw)) = 2
    /\ parse_time(LineParts(raw)[1]).ok
    /\ parse_time(LineParts(raw)[2]).ok

LineStart(raw) == parse_time(LineParts(raw)[1]).val

LineEnd(raw) == parse_time(LineParts(raw)[2]).val

\* a <= b of two timedeltas
NotAfterDelta(a, b) ==
    \/ a.seconds < b.seconds
    \/ a.seconds = b.seconds /\ a.microseconds <= b.microseconds

\* A timedelta of whole milliseconds divided by the speed n/d and cut to
\* whole milliseconds, in exact arithmetic.
Truncated(t, sp) ==
    LET whole == t.seconds * sp[2]
        rest == (whole % sp[1]) * 1000 + (t.microseconds \div 1000) * sp[2]
        ms == rest \div sp[1]
    IN [seconds |-> (whole \div sp[1]) + (ms \div 1000),
        microseconds |-> (ms % 1000) * 1000]

\* A timedelta cut to whole milliseconds.
CutToMillis(t) ==
    [seconds |-> t.seconds, microseconds |-> (t.microseconds \div 1000) * 1000]

L_0500 == <<"0", "0", ":", "0", "0", ":", "0", "0", ",", "5", "0", "0">>

(***************************************************************************)
(* C14, as the specification states it.  Every timing line "A --> B" is    *)
(* written as format_time(parse_time(A) / speed) --> format_time(          *)
(* parse_time(B) / speed), the quotient cut (never rounded up) to whole    *)
(* milliseconds.  The code rounds the product to the nearest microsecond   *)
(* before format_time cuts it: at speed 2000 the timecode 00:00:01,999     *)
(* (quotient 0.9995 ms) is written as 00:00:00,001.                        *)
(***************************************************************************)
C14_QuotientCut ==
    \A k \in 1..Len(outfile) :
       (SubtitleCall /\ IsTiming(Infile[k])) =>
          outfile[k] =
             Written(format_time(Truncated(LineStart(Infile[k]), CallSpeed))
                     \o Marker
                     \o format_time(Truncated(LineEnd(Infile[k]), CallSpeed))
                     \o LF)

(***************************************************************************)
(* C14, amended.  Every timing line "A --> B" is written as a line         *)
(* "A' --> B'" of zero-padded timecodes, where A' is parse_time(A) / speed *)
(* rounded to the nearest microsecond and then cut to whole milliseconds;  *)
(* for a speed n/d with n < 2000 that is the exact quotient cut to whole   *)
(* milliseconds.  A start not after its end stays so, and speed 2 turns    *)
(* "00:00:01,000 --> 00:00:02,000" into "00:00:00,500 --> 00:00:01,000".   *)
(***************************************************************************)
C14_RoundedThenCut ==
    \A k \in 1..Len(outfile) :
       (SubtitleCall /\ IsTiming(Infile[k])) =>
          LET a == LineStart(Infile[k])
              b == LineEnd(Infile[k])
              out == LineParts(outfile[k])
              oa == parse_time(out[1])
              ob == parse_time(out[2])
          IN /\ Len(out) = 2 /\ oa.ok /\ ob.ok
             /\ outfile[k] = Written(out[1] \o Marker \o out[2] \o LF)
             /\ oa.val = CutToMillis(Retimed(a, CallSpeed))
             /\ ob.val = CutToMillis(Retimed(b, CallSpeed))
             /\ CallSpeed[1] < 2000 =>
                   /\ oa.val = Truncated(a, CallSpeed)
                   /\ ob.val = Truncated(b, CallSpeed)
             /\ oa.val.seconds < 360000 => IsLong(out[1])
             /\ ob.val.seconds < 360000 => IsLong(out[2])
             /\ NotAfterDelta(a, b) => NotAfterDelta(oa.val, ob.val)
             /\ (a = parse_time(L_1000).val /\ b = parse_time(L_2000).val
                 /\ CallSpeed = <<2, 1>>) =>
                   out = <<L_0500, L_1000>>

C14_Witness ==
    /\ SubtitleCall
    /\ Succeeded
    /\ sub_call = 1
    /\ linesep = LF
    /\ subtitle_speed = <<2, 1>>
    /\ lines = <<Timing(L_1000, L_2000) \o LF>>
    /\ outfile = <<Timing(L_0500, L_1000) \o LF>>

(***************************************************************************)
(* C15.  For every file that change_subtitle_speed processes successfully  *)
(* the output has as many lines as the input, the i-th written for the     *)
(* i-th read, and every line that is not a timing line is written          *)
(* byte for byte as it is in the input.  The files are opened in text      *)
(* mode: a line that ends in "\r\n" is written with the line end of the    *)
(* platform, "\n" where os.linesep is "\n".                                *)
(***************************************************************************)
C15_OtherLinesUntouched ==
    (SubtitleCall /\ Succeeded /\ sub_call = 1 /\ linesep = LF) =>
       /\ Len(outfile) = Len(lines)
       /\ \A k \in 1..Len(lines) :
             ~HasMarker(lines[k]) => outfile[k] = lines[k]

(***************************************************************************)
(* C16.  When an operation (trim, sliding window, speed change, subtitle   *)
(* retiming) fails for a validation error of its input, no output has      *)
(* been created or written at that moment, also when the malformed         *)
(* element is not the first.  change_subtitle_speed opens its output file  *)
(* for writing before it reads the first line and writes every line as it  *)
(* goes: the lines before the malformed one are in the file.               *)
(***************************************************************************)
ValidationKinds ==
    {"InvalidFormat", "InvalidRange", "InvalidParameter", "EmptyInput",
     "MissingDuration"}

\* The line the call failed at holds the marker: a timing line of the
\* specification.
FailedAtMarker == i <= Len(Infile) /\ HasMarker(ReadLine(Infile[i]))

C16_NoPartialOutput ==
    (Finished /\ err \in ValidationKinds /\ (SubtitleCall => FailedAtMarker))
    =>
       /\ ~out_exists
       /\ outfile = <<>>
       /\ ~Called("write")

(***************************************************************************)
(* C17.  In every run of trim, sliding window or speed change that ends    *)
(* in a validation failure (empty list, malformed timecode, invalid range  *)
(* or parameter) no call into the media engine has been made before the    *)
(* failure.  The three functions load the video before they look at the    *)
(* list and before they parse the first time.                              *)
(***************************************************************************)
C17_ValidationBeforeEngine ==
    ((TrimCall \/ WindowCall \/ SpeedCall) /\ Finished
     /\ err \in ValidationKinds) =>
       calls = <<>>

(***************************************************************************)
(* C18, as the specification states it.  After change_subtitle_speed with  *)
(* speed f and again, on the output, with 1 / f, each timecode is not      *)
(* greater than the original one and at most one millisecond less.  The    *)
(* first call cuts up to a millisecond off, which the second multiplies by *)
(* f: at f = 3 the timecode 00:00:00,005 comes back as 00:00:00,003.       *)
(***************************************************************************)
MillisOf(t) == t.seconds * 1000 + (t.microseconds \div 1000)

\* Both calls have returned.
RoundTripDone == SubtitleCall /\ sub_call = 2 /\ Succeeded

Shortfall(t, z) ==
    (t.seconds - z.seconds) * 1000
    + (t.microseconds \div 1000) - (z.microseconds \div 1000)

\* max(n, d) of the speed n/d: max(1, f) = MostSpeed / d
MostSpeed ==
    IF subtitle_speed[1] > subtitle_speed[2]
    THEN subtitle_speed[1]
    ELSE subtitle_speed[2]

C19_MarkerWithSpaces ==
    (SubtitleCall /\ sub_call = 1) =>
       /\ \A k \in 1..Len(outfile) :
             ~HasMarker(ReadLine(lines[k]))
                => outfile[k] = Written(ReadLine(lines[k]))
       /\ (Finished /\ err = "InvalidFormat") =>
             /\ i <= Len(lines)
             /\ HasMarker(ReadLine(lines[i]))
             /\ ~IsTiming(lines[i])
       /\ (pc = "sub_loop" \/ Succeeded) =>
             \A k \in 1..Len(outfile) :
                HasMarker(ReadLine(lines[k])) => IsTiming(lines[k])

(***************************************************************************)
(* C20.  The loop of the sliding window ends for every parameter set that  *)
(* passes validation: each pass moves the cursor forward by slide_step,    *)
(* which is positive, the loop makes at most                               *)
(* floor((end - start - window_length) / slide_step) + 1 windows, and none *)
(* when end - start < window_length.                                       *)
(***************************************************************************)
\* The most windows the loop can make.
MostWindows ==
    IF end_seconds - start_seconds < window_length
    THEN 0
    ELSE ((end_seconds - start_seconds - window_length) \div slide_step) + 1

\* The loop is running or is left.
InWindowLoop == WindowCall /\ pc \in {"win_loop", "win_write"}

C20_Bounded ==
    (InWindowLoop \/ WindowsCut) =>
       /\ slide_step >= 1
       /\ current_time = start_seconds + Len(clips) * slide_step
       /\ Len(clips) <= MostWindows
       /\ (pc # "win_loop") => Len(clips) = MostWindows
       /\ end_seconds - start_seconds < window_length => clips = <<>>

C20_Step ==
    (WindowCall /\ pc = "win_loop" /\ pc' = "win_loop") =>
       /\ current_time' = current_time + slide_step
       /\ current_time' > current_time
       /\ Len(clips') = Len(clips) + 1

\* The calls of the sliding window alone, every step of a running call
\* taken in the end.
WindowInit == InitWindow /\ InitLocals

WindowSpec ==
    /\ WindowInit
    /\ [][CutVideoWithSlidingWindow]_vars
    /\ WF_vars(CutVideoWithSlidingWindow)

ProcessCall == op = "process_video"

IsPrefix(s, t) == Len(s) <= Len(t) /\ SubSeq(t, 1, Len(s)) = s

\* An entry whose key names an operation and that gives every parameter the
\* operation requires.
Ready(e) == e.name \in Operations /\ e.missing \notin Required(e.name)

\* A ready entry that gives the path of an output.
WithOutput(e) == Ready(e) /\ e.missing \notin {"output_path", "output_dir"}

NamesOf(s) == [j \in 1..Len(s) |-> s[j].name]

\* The ready operations among the first k entries, in the order of the file.
ReadyNames(k) == NamesOf(SelectSeq(SubSeq(config, 1, k), Ready))

\* Those of them that write an output.
OutputNames(k) == NamesOf(SelectSeq(SubSeq(config, 1, k), WithOutput))

\* The number of entries the loop has left behind: the entry it is at is
\* still running, or is the one that failed.
Completed == IF pc = "pv_call" \/ err # "none" THEN i - 1 ELSE i

\* The operations called so far are the ready ones of the keys the loop has
\* reached, in the order of the file; the outputs of the operations that
\* returned are on disk; an error ends the call, and a call that returns has
\* reached every key.
C21_Bounded ==
    ProcessCall =>
       /\ i \in 0..Len(config)
       /\ started = ReadyNames(i)
       /\ IsPrefix(OutputNames(Completed), written)
       /\ Len(written) <= Len(OutputNames(Completed)) + 1
       /\ err # "none" => pc = "done"
       /\ (Finished /\ err = "none") => i = Len(config)

\* A step of process_video removes no output, and calls an operation only
\* from the head of the loop, with no error raised, for the next key.
C21_Step ==
    ProcessCall =>
       /\ pc # "done"
       /\ IsPrefix(written, written')
       /\ started' # started =>
             /\ pc = "start" /\ err = "none"
             /\ i' = i + 1
             /\ Ready(config[i'])
             /\ started' = Append(started, config[i'].name)

\* C21: process_video runs the operations of the configuration one at a
\* time in the order of the file and stops at the first one that fails: no
\* operation after the failing one is called, the outputs the earlier ones
\* wrote stay, and an operation is called only when its required parameters
\* are present.
C21_InOrderUntilFailure == []C21_Bounded /\ [][C21_Step]_vars

\* The first operation wrote its output, the second one failed, the third
\* one was never called.
C21_Witness ==
    /\ ProcessCall /\ Finished
    /\ exc = "Exception"
    /\ Len(config) = MaxOps
    /\ i = 2
    /\ started = <<config[1].name, config[2].name>>
    /\ written = <<config[1].name>>
    /\ Ready(config[3])

(***************************************************************************)
(* The media handles of an operation.                                      *)
(***************************************************************************)
MediaCall ==
    op \in {"cut_video_with_sliding_window", "change_playback_speed",
            "trim_video_by_intervals", "concat_videos",
            "convert_video_to_audio", "extract_audio_segment"}

\* A handle the call has loaded is open.
HandleOpen ==
    \/ video = "open"
    \/ video_segment = "open"
    \/ \E k \in DOMAIN videos : videos[k] = "open"

\* No engine call other than a close follows a close.
ClosedLast ==
    \A j, k \in DOMAIN calls :
        (j < k /\ calls[j] = "close") => calls[k] = "close"

\* C22: when one of the six media operations has returned or raised, no
\* handle it loaded is open, and no handle is closed before the last
\* extraction or write.
C22_HandlesClosed ==
    MediaCall => /\ Finished => ~HandleOpen
                 /\ ClosedLast

====
